---- MODULE Spec2Model ----
(***************************************************************************)
(* Model of availability_grade.py: the chunked scraping orchestrator       *)
(* (main_async, chunker, process_chunk), the per-target retry worker       *)
(* (scrape_one) and the block-recovery pipeline (is_page_blocked,          *)
(* handle_blocking_page, handle_cookie_consent).                           *)
(*                                                                         *)
(* One action per suspension point (await) of a coroutine: everything the  *)
(* coroutine does synchronously after the awaited operation returns or     *)
(* raises, up to its next await, belongs to the same action.  The outcome  *)
(* of every browser operation (return value or exception) is an input      *)
(* drawn with \E.                                                          *)
(***************************************************************************)
EXTENDS Integers, Sequences, FiniteSets, TLC

\* ------------------------------------------------------------- bounds ---
\* Largest number of input rows (len(df)) explored.
MaxRows == 3
\* Capacity of the per-chunk semaphore; stands for MAX_CONCURRENCY (line 43),
\* scaled down so that a chunk can have more workers than permits.
MAX_CONCURRENCY == 1

\* The values of CHUNK_SIZE (line 42) explored: chunks of one row, and chunks
\* with more rows (workers) than the semaphore has permits.
ChunkSizes == {1, 2}

\* ---------------------------------------------------- program constants ---
MAX_RETRIES == 3
\* for _ in range(2): the number of block-recovery rounds of one attempt.
RECOVERY_ROUNDS == 2

VARIABLES
    df,           \* main_async: the input rows, each row is its url
    size,         \* CHUNK_SIZE of this run
    chunks,       \* main_async: chunker(df, CHUNK_SIZE)
    idx,          \* main_async: enumerate(chunks, 1) index of the current chunk
    mpc,          \* main_async: position of the coordinating coroutine
    all_results,  \* main_async: list of processed chunks
    full_df,      \* main_async: pd.concat(all_results), written to OUTPUT_FILE
    sem,          \* process_chunk: value of asyncio.Semaphore(MAX_CONCURRENCY)
    holders,      \* workers currently inside "async with sem"
    pc,           \* scrape_one: position of each worker of the current chunk
    url,          \* scrape_one: parameter url of each worker
    attempt,      \* scrape_one: loop variable attempt
    context,      \* scrape_one: the attempt's BrowserSession
    resp,         \* scrape_one: response of page.goto
    round,        \* scrape_one: iteration of "for _ in range(2)"
    result,       \* value returned by each scrape_one task
    order,        \* workers of the current chunk in order of completion
    solved,       \* per worker: round of this attempt in which the image
                  \* CAPTCHA was solved by OCR (0: none)
    exc,          \* scrape_one: the exception e caught at line 256, kept
                  \* while the handler closes the session: "None", "Error"
                  \* (an operation awaited by scrape_one raised), "HbpError"
                  \* (an exception left handle_blocking_page), "Unresolved"
                  \* (RuntimeError of line 240), "Persistent" (of line 245)
    nothing,      \* per worker: the blocked page of the last recovery showed
                  \* neither the continue control nor the CAPTCHA image
    jitters,      \* per worker: sleeps of line 207 completed
    backoffs,     \* per worker: sleeps of line 260 completed
    pauses        \* main_async: sleeps of line 307 completed

vars == <<df, size, chunks, idx, mpc, all_results, full_df, sem, holders,
          pc, url, attempt, context, resp, round, result, order, solved,
          exc, nothing, jitters, backoffs, pauses>>

mainVars == <<df, size, chunks, idx, mpc, all_results, full_df, pauses>>

\* ------------------------------------------------------ result records ---
FIELDS == {"availability", "average_stars", "total_reviews"}

Sentinel(s) == <<s, 0>>

\* {k: "Page n'existe pas" for k in (...)}
NotFoundResult ==
    [availability  |-> Sentinel("Page n'existe pas"),
     average_stars |-> Sentinel("Page n'existe pas"),
     total_reviews |-> Sentinel("Page n'existe pas")]

ErrorResult_mixed ==
    [availability  |-> Sentinel("N/A"),
     average_stars |-> Sentinel("Error"),
     total_reviews |-> Sentinel("Error")]

\* {k: "Error" for k in (...)}
ErrorResult ==
    [availability  |-> Sentinel("Error"),
     average_stars |-> Sentinel("Error"),
     total_reviews |-> Sentinel("Error")]

\* {"availability": avail, "average_stars": stars, "total_reviews": reviews}
\* what the extraction collaborator reads on the page of url u.
SuccessResult(u) ==
    [availability  |-> <<"avail", u>>,
     average_stars |-> <<"stars", u>>,
     total_reviews |-> <<"reviews", u>>]

NoResult == [none |-> TRUE]

\* ------------------------------------------------------------ chunker ---
Min(a, b) == IF a < b THEN a ELSE b

\* range(0, n, step) as the sequence of its values
RECURSIVE RangeFrom(_, _, _)
RangeFrom(i, n, step) ==
    IF i >= n THEN <<>> ELSE <<i>> \o RangeFrom(i + step, n, step)

\* df.iloc[i:j] (0-based, j exclusive, clipped to the length of d)
Iloc(d, i, j) == SubSeq(d, i + 1, Min(j, Len(d)))

chunker_dropping(d, sz) ==
    [k \in 1..Len(RangeFrom(0, Len(d), sz + 1)) |->
        Iloc(d, RangeFrom(0, Len(d), sz + 1)[k],
                RangeFrom(0, Len(d), sz + 1)[k] + sz)]

\* [df.iloc[i:i + size].reset_index(drop=True) for i in range(0, len(df), size)]
chunker(d, sz) ==
    [k \in 1..Len(RangeFrom(0, Len(d), sz)) |->
        Iloc(d, RangeFrom(0, Len(d), sz)[k], RangeFrom(0, Len(d), sz)[k] + sz)]

\* pd.concat(all_results, ignore_index=True)
RECURSIVE Concat(_)
Concat(ss) == IF ss = <<>> THEN <<>> ELSE Head(ss) \o Concat(Tail(ss))

\* -------------------------------------------------- process_chunk data ---
\* the workers of the chunk being processed (one task per row)
Workers == DOMAIN pc

gather_by_completion(res, ord) == [i \in DOMAIN res |-> res[ord[i]]]

\* results = await asyncio.gather(*tasks): the results in task order
gather(res, ord) == [i \in DOMAIN res |-> res[i]]

\* res[[fields]] = pd.DataFrame(results, index=res.index): row i gets results[i]
Merge(ch, results) ==
    [i \in DOMAIN ch |->
        [url           |-> ch[i],
         availability  |-> results[i].availability,
         average_stars |-> results[i].average_stars,
         total_reviews |-> results[i].total_reviews]]

\* ------------------------------------------------- block classification ---
\* what is_page_blocked looks at: the title and two elements of the HTML
Pages == [title_match : BOOLEAN, captcha_form : BOOLEAN, captcha_img : BOOLEAN]

is_page_blocked(page) ==
    IF page.title_match THEN TRUE
    ELSE IF page.captcha_form THEN TRUE
    ELSE IF page.captcha_img THEN TRUE
    ELSE FALSE

\* ------------------------------------------------------ cookie consent ---
\* what the page does to handle_cookie_consent's four awaited operations
ConsentOutcomes ==
    {"absent", "click_error", "not_hidden", "pause_error", "handled"}

\* the booleans a recovery helper returns
Booleans == {"True", "False"}

handle_cookie_consent_unguarded(o) ==
    CASE o = "absent"      -> "False"
      [] o = "click_error" -> "raise"
      [] o = "not_hidden"  -> "False"
      [] o = "pause_error" -> "raise"
      [] o = "handled"     -> "True"

\* the value handle_cookie_consent returns for each outcome ("raise": an
\* exception leaves it)
handle_cookie_consent(o) ==
    CASE o = "absent"      -> "False"  \* wait_for(visible): PlaywrightTimeoutError
      [] o = "click_error" -> "False"  \* click raises: except Exception
      [] o = "not_hidden"  -> "False"  \* wait_for(hidden): PlaywrightTimeoutError
      [] o = "pause_error" -> "False"  \* wait_for_timeout raises: except Exception
      [] o = "handled"     -> "True"

\* ------------------------------------------------------ block recovery ---
ClearPage == [title_match |-> FALSE, captcha_form |-> FALSE, captcha_img |-> FALSE]

\* what the page does to each operation of handle_blocking_page
HBPProduct ==
    [continue_visible : {"yes", "no", "raise"},
     click_ok         : BOOLEAN,
     captcha_visible  : {"yes", "no", "raise"},
     src_ok           : BOOLEAN,
     ocr_ok           : BOOLEAN,
     fill_ok          : BOOLEAN,
     submit_ok        : BOOLEAN,
     wait             : {"ok", "timeout", "error"},
     final            : Pages]

\* an operation the code does not reach has no outcome: it keeps its default
HBPCanonical(e) ==
    /\ (e.continue_visible # "yes" => e.click_ok)
    /\ (e.continue_visible # "no" => e.captcha_visible = "no")
    /\ (e.captcha_visible # "yes" => e.src_ok)
    /\ (~e.src_ok => e.ocr_ok)
    /\ (e.captcha_visible # "yes" \/ ~e.ocr_ok => e.fill_ok)
    /\ (~e.fill_ok => e.submit_ok)
    /\ (e.captcha_visible # "yes" \/ ~e.submit_ok => e.wait = "ok")
    /\ (e.captcha_visible # "yes" \/ e.wait # "ok" \/ ~e.src_ok \/ ~e.ocr_ok
          \/ ~e.fill_ok \/ ~e.submit_ok => e.final = ClearPage)

HBPEnvs == {e \in HBPProduct : HBPCanonical(e)}

\* the image CAPTCHA is shown, the OCR solve and the form submission succeed
\* and the page that results is classified unblocked
OcrSolved(e) ==
    /\ e.continue_visible = "no" /\ e.captcha_visible = "yes"
    /\ e.src_ok /\ e.ocr_ok /\ e.fill_ok /\ e.submit_ok /\ e.wait = "ok"
    /\ ~is_page_blocked(e.final)

\* lines 163 and 174: both is_visible calls returned False
NothingVisible(e) == e.continue_visible = "no" /\ e.captcha_visible = "no"

handle_blocking_page_unverified(e) ==
    IF e.continue_visible = "raise" THEN "raise"
    ELSE IF e.continue_visible = "yes" THEN (IF e.click_ok THEN "True" ELSE "False")
    ELSE IF e.captcha_visible = "raise" THEN "raise"
    ELSE IF e.captcha_visible = "no" THEN "False"
    ELSE IF ~e.src_ok THEN "raise"
    ELSE IF ~e.ocr_ok THEN "False"
    ELSE IF ~e.fill_ok THEN "raise"
    ELSE IF ~e.submit_ok THEN "raise"
    ELSE IF e.wait = "timeout" THEN "False"
    ELSE IF e.wait = "error" THEN "raise"
    ELSE "False"

handle_blocking_page_lenient(e) ==
    IF e.continue_visible = "raise" THEN "raise"
    ELSE IF e.continue_visible = "yes" THEN (IF e.click_ok THEN "True" ELSE "False")
    ELSE IF e.captcha_visible = "raise" THEN "raise"
    ELSE IF e.captcha_visible = "no" THEN "True"
    ELSE IF ~e.src_ok THEN "raise"
    ELSE IF ~e.ocr_ok THEN "False"
    ELSE IF ~e.fill_ok THEN "raise"
    ELSE IF ~e.submit_ok THEN "raise"
    ELSE IF e.wait = "timeout" THEN "False"
    ELSE IF e.wait = "error" THEN "raise"
    ELSE IF ~is_page_blocked(e.final) THEN "True"
    ELSE "False"

\* handle_blocking_page: "True", "False", or "raise" when an exception leaves it
handle_blocking_page(e) ==
    IF e.continue_visible = "raise" THEN "raise"          \* is_visible, line 163
    ELSE IF e.continue_visible = "yes"
         THEN (IF e.click_ok THEN "True" ELSE "False")    \* lines 165-171
    ELSE IF e.captcha_visible = "raise" THEN "raise"      \* is_visible, line 174
    ELSE IF e.captcha_visible = "no" THEN "False"         \* line 176
    ELSE IF ~e.src_ok THEN "raise"                        \* get_attribute, line 179
    ELSE IF ~e.ocr_ok THEN "False"                        \* lines 180-185
    ELSE IF ~e.fill_ok THEN "raise"                       \* fill, line 187
    ELSE IF ~e.submit_ok THEN "raise"                     \* click, line 188
    ELSE IF e.wait = "timeout" THEN "False"               \* lines 200-202
    ELSE IF e.wait = "error" THEN "raise"                 \* not a timeout: uncaught
    ELSE IF ~is_page_blocked(e.final) THEN "True"         \* lines 194-196
    ELSE "False"                                          \* lines 197-199

\* ---------------------------------------------------------- scrape_one ---
\* Positions of a worker: the await it is suspended at.
\*   jitter       line 207  asyncio.sleep(WAIT_BETWEEN_REQUESTS)
\*   acquire      line 211  async with sem (waiting for a permit)
\*   new_context  line 212  browser.new_context
\*   new_page     line 217  context.new_page (and stealth_async, line 218)
\*   goto         line 221  page.goto
\*   title        line 227  page.title
\*   nf_close     lines 225, 229  context.close on the not-found path
\*   consent      line 232  handle_cookie_consent
\*   classify     lines 235-237  page.content, page.title, is_page_blocked
\*   recover      line 239  handle_blocking_page
\*   wait         line 241  page.wait_for_timeout
\*   extract      line 246  page.content and the extraction
\*   ok_close     line 253  context.close on the success path
\*   h_close      line 258  context.close in the except handler
\*   backoff      line 260  asyncio.sleep(5..10)
\*   done         the coroutine returned result[w]
\*   raised       an exception left the coroutine

Release_lost(s) == s

\* sem.release(), by "async with sem" on every way out of the block
Release(s) == s + 1

AfterGoto_unchecked(r) == "title"

\* line 223: if resp and resp.status >= 400
AfterGoto(r) == IF r = "err" THEN "nf_close" ELSE "title"

\* Every action below leaves main_async where it is.
\* The locals resp and round are dead once the code is past their last read
\* (the next attempt assigns them before it reads them): they are cleared.
Forget(w) ==
    /\ resp' = [resp EXCEPT ![w] = "None"]
    /\ round' = [round EXCEPT ![w] = 0]

\* the worker goes on to its next await, inside "async with sem"
Goon(w, next) ==
    /\ pc' = [pc EXCEPT ![w] = next]
    /\ UNCHANGED <<sem, holders, context, result, order>>

\* a worker returns r from inside "async with sem"
Return(w, r) ==
    /\ sem' = Release(sem)
    /\ holders' = holders \ {w}
    /\ pc' = [pc EXCEPT ![w] = "done"]
    /\ result' = [result EXCEPT ![w] = r]
    /\ order' = Append(order, w)
    /\ round' = [round EXCEPT ![w] = 0]
    /\ UNCHANGED <<resp, solved, exc, nothing>>

\* lines 259-263, after the handler's close: backoff, or the "Error" record
AfterHandler(w) ==
    IF attempt[w] < MAX_RETRIES
    THEN /\ pc' = [pc EXCEPT ![w] = "backoff"]
         /\ UNCHANGED <<result, order>>
    ELSE /\ pc' = [pc EXCEPT ![w] = "done"]
         /\ result' = [result EXCEPT ![w] = ErrorResult]
         /\ order' = Append(order, w)

Fail_holding(w, c) ==
    /\ UNCHANGED <<sem, holders>>
    /\ context' = [context EXCEPT ![w] = c]
    /\ Forget(w)
    /\ IF c # "None"
       THEN /\ pc' = [pc EXCEPT ![w] = "h_close"]
            /\ UNCHANGED <<result, order>>
       ELSE AfterHandler(w)

\* an exception raised inside "async with sem": the block is left (the permit
\* is released), then the except clause of line 256 runs up to its first await.
\* c is the state of the worker's session when the exception is raised.
Fail(w, c) ==
    /\ sem' = Release(sem)
    /\ holders' = holders \ {w}
    /\ context' = [context EXCEPT ![w] = c]
    /\ Forget(w)
    /\ IF c # "None"
       THEN /\ pc' = [pc EXCEPT ![w] = "h_close"]
            /\ UNCHANGED <<result, order>>
       ELSE AfterHandler(w)

\* an operation awaited by scrape_one raises: no recovery of the attempt is
\* to be remembered.  With no session to close the handler awaits nothing
\* before line 259 and e is dead after the log of line 257.
Raise(w, c) ==
    /\ Fail(w, c)
    /\ solved' = [solved EXCEPT ![w] = 0]
    /\ exc' = [exc EXCEPT ![w] = IF c # "None" THEN "Error" ELSE "None"]
    /\ nothing' = [nothing EXCEPT ![w] = FALSE]

Running(w, at) == mpc = "gather" /\ w \in Workers /\ pc[w] = at

\* line 207, then the first iteration of the for loop starts (lines 208-209)
Jitter(w) ==
    /\ Running(w, "jitter")
    /\ pc' = [pc EXCEPT ![w] = "acquire"]
    /\ attempt' = [attempt EXCEPT ![w] = 1]
    /\ jitters' = [jitters EXCEPT ![w] = @ + 1]
    /\ UNCHANGED <<mainVars, url, sem, holders, context, resp, round, result,
                   order, solved, exc, nothing, backoffs>>

\* line 211: async with sem
Acquire(w) ==
    /\ Running(w, "acquire")
    /\ sem > 0
    /\ sem' = sem - 1
    /\ holders' = holders \cup {w}
    /\ pc' = [pc EXCEPT ![w] = "new_context"]
    /\ UNCHANGED <<mainVars, url, attempt, context, resp, round, result, order,
                   solved, exc, nothing, jitters, backoffs>>

\* lines 212-216
NewContext(w) ==
    /\ Running(w, "new_context")
    /\ \/ /\ context' = [context EXCEPT ![w] = "open"]
          /\ pc' = [pc EXCEPT ![w] = "new_page"]
          /\ UNCHANGED <<sem, holders, result, order, resp, round, solved, exc, nothing>>
       \/ Raise(w, "None")
    /\ UNCHANGED <<mainVars, url, attempt, jitters, backoffs>>

\* lines 217-218
NewPage(w) ==
    /\ Running(w, "new_page")
    /\ \/ Goon(w, "goto") /\ UNCHANGED <<resp, round, solved, exc, nothing>>
       \/ Raise(w, "open")
    /\ UNCHANGED <<mainVars, url, attempt, jitters, backoffs>>

\* lines 221-226: resp is None, a response below 400 ("ok") or one >= 400 ("err")
Goto(w) ==
    /\ Running(w, "goto")
    /\ \/ \E r \in {"None", "ok", "err"} :
            /\ resp' = [resp EXCEPT ![w] = r]
            /\ Goon(w, AfterGoto(r))
            /\ UNCHANGED <<round, solved, exc, nothing>>
       \/ Raise(w, "open")
    /\ UNCHANGED <<mainVars, url, attempt, jitters, backoffs>>

\* lines 227-229: NOT_FOUND_RE on the title; resp is not read after line 223
Title(w) ==
    /\ Running(w, "title")
    /\ \/ \E not_found \in BOOLEAN :
            /\ Goon(w, IF not_found THEN "nf_close" ELSE "consent")
            /\ Forget(w)
            /\ UNCHANGED <<solved, exc, nothing>>
       \/ Raise(w, "open")
    /\ UNCHANGED <<mainVars, url, attempt, jitters, backoffs>>

\* a context.close that raises leaves the session open or closed
CloseFailures == {"open", "closed"}

\* lines 225-226 and 229-230
NfClose(w) ==
    /\ Running(w, "nf_close")
    /\ \/ /\ context' = [context EXCEPT ![w] = "closed"]
          /\ Return(w, NotFoundResult)
       \/ \E c \in CloseFailures : Raise(w, c)
    /\ UNCHANGED <<mainVars, url, attempt, jitters, backoffs>>

\* line 232: the value returned is not used; the for loop of line 234 starts.
\* An exception that left handle_cookie_consent would be caught at line 256.
Consent(w) ==
    /\ Running(w, "consent")
    /\ \E o \in ConsentOutcomes :
         IF handle_cookie_consent(o) \in Booleans
         THEN /\ Goon(w, "classify")
              /\ round' = [round EXCEPT ![w] = 1]
              /\ UNCHANGED <<resp, solved, exc, nothing>>
         ELSE Raise(w, "open")
    /\ UNCHANGED <<mainVars, url, attempt, jitters, backoffs>>

\* lines 235-237 and 242-243
Classify(w) ==
    /\ Running(w, "classify")
    /\ \/ \E page \in Pages :
            /\ Goon(w, IF is_page_blocked(page) THEN "recover" ELSE "extract")
            /\ UNCHANGED <<resp, round, solved, exc, nothing>>
       \/ Raise(w, "open")
    /\ UNCHANGED <<mainVars, url, attempt, jitters, backoffs>>

\* lines 239-240: the exception that leaves handle_blocking_page, or the
\* RuntimeError raised when it returns False
Recover(w) ==
    /\ Running(w, "recover")
    /\ \E e \in HBPEnvs :
         /\ solved' = [solved EXCEPT ![w] =
                         IF OcrSolved(e) /\ @ = 0 THEN round[w]
                         ELSE IF handle_blocking_page(e) = "True" THEN @ ELSE 0]
         /\ nothing' = [nothing EXCEPT ![w] = NothingVisible(e)]
         /\ IF handle_blocking_page(e) = "True"
            THEN Goon(w, "wait") /\ UNCHANGED <<resp, round, exc>>
            ELSE /\ Fail(w, "open")
                 /\ exc' = [exc EXCEPT ![w] =
                              IF handle_blocking_page(e) = "raise"
                              THEN "HbpError" ELSE "Unresolved"]
    /\ UNCHANGED <<mainVars, url, attempt, jitters, backoffs>>

\* line 241, then the next iteration of "for _ in range(2)" or its else
\* clause (line 245)
Wait(w) ==
    /\ Running(w, "wait")
    /\ \/ /\ round[w] < RECOVERY_ROUNDS
          /\ Goon(w, "classify")
          /\ round' = [round EXCEPT ![w] = @ + 1]
          /\ nothing' = [nothing EXCEPT ![w] = FALSE]
          /\ UNCHANGED <<resp, solved, exc>>
       \/ /\ round[w] >= RECOVERY_ROUNDS
          /\ Fail(w, "open")
          /\ exc' = [exc EXCEPT ![w] = "Persistent"]
          /\ nothing' = [nothing EXCEPT ![w] = FALSE]
          /\ UNCHANGED solved
       \/ Raise(w, "open")
    /\ UNCHANGED <<mainVars, url, attempt, jitters, backoffs>>

\* lines 246-252
Extract(w) ==
    /\ Running(w, "extract")
    /\ \/ Goon(w, "ok_close") /\ UNCHANGED <<resp, round, solved, exc, nothing>>
       \/ Raise(w, "open")
    /\ UNCHANGED <<mainVars, url, attempt, jitters, backoffs>>

\* lines 253-254
OkClose(w) ==
    /\ Running(w, "ok_close")
    /\ \/ /\ context' = [context EXCEPT ![w] = "closed"]
          /\ Return(w, SuccessResult(url[w]))
       \/ \E c \in CloseFailures : Raise(w, c)
    /\ UNCHANGED <<mainVars, url, attempt, jitters, backoffs>>

HClose_skipping(w) ==
    /\ Running(w, "h_close")
    /\ AfterHandler(w)
    /\ exc' = [exc EXCEPT ![w] = "None"]
    /\ nothing' = [nothing EXCEPT ![w] = FALSE]
    /\ solved' = [solved EXCEPT ![w] = 0]
    /\ UNCHANGED <<mainVars, url, sem, holders, attempt, context, resp, round,
                   jitters, backoffs>>

\* line 258 (outside "async with sem": the permit is already released), then
\* lines 259-263; an exception of this close leaves scrape_one.  The attempt
\* is over: what is remembered of it (solved, exc, nothing) is cleared.
HClose(w) ==
    /\ Running(w, "h_close")
    /\ \/ /\ context' = [context EXCEPT ![w] = "closed"]
          /\ AfterHandler(w)
       \/ \E c \in CloseFailures :
            /\ context' = [context EXCEPT ![w] = c]
            /\ pc' = [pc EXCEPT ![w] = "raised"]
            /\ UNCHANGED <<result, order>>
    /\ exc' = [exc EXCEPT ![w] = "None"]
    /\ nothing' = [nothing EXCEPT ![w] = FALSE]
    /\ solved' = [solved EXCEPT ![w] = 0]
    /\ UNCHANGED <<mainVars, url, sem, holders, attempt, resp, round,
                   jitters, backoffs>>

Backoff_jittering(w) ==
    /\ Running(w, "backoff")
    /\ pc' = [pc EXCEPT ![w] = "acquire"]
    /\ attempt' = [attempt EXCEPT ![w] = @ + 1]
    /\ context' = [context EXCEPT ![w] = "None"]
    /\ backoffs' = [backoffs EXCEPT ![w] = @ + 1]
    /\ jitters' = [jitters EXCEPT ![w] = @ + 1]
    /\ UNCHANGED <<mainVars, url, sem, holders, resp, round, result, order,
                   solved, exc, nothing>>

\* line 260, then the next iteration of the for loop (lines 208-209)
Backoff(w) ==
    /\ Running(w, "backoff")
    /\ pc' = [pc EXCEPT ![w] = "acquire"]
    /\ attempt' = [attempt EXCEPT ![w] = @ + 1]
    /\ context' = [context EXCEPT ![w] = "None"]
    /\ backoffs' = [backoffs EXCEPT ![w] = @ + 1]
    /\ UNCHANGED <<mainVars, url, sem, holders, resp, round, result, order,
                   solved, exc, nothing, jitters>>

\* ----------------------------------------- process_chunk and main_async ---
\* Positions of main_async:
\*   start    line 294   before chunker
\*   chunk    line 302   about to call process_chunk for chunks[idx]
\*   gather   line 271   suspended in asyncio.gather
\*   pause    line 307   asyncio.sleep(WAIT_BETWEEN_CHUNKS)
\*   finish   line 308   after the loop
\*   done     lines 310-315 executed
\*   aborted  an exception of a task left gather, process_chunk and main_async

workerVars == <<sem, holders, pc, url, attempt, context, resp, round, result,
                order, solved, exc, nothing, jitters, backoffs>>

\* lines 294-300
MainStart ==
    /\ mpc = "start"
    /\ chunks' = chunker(df, size)
    /\ idx' = 1
    /\ mpc' = IF chunker(df, size) = <<>> THEN "finish" ELSE "chunk"
    /\ UNCHANGED <<df, size, all_results, full_df, pauses, workerVars>>

\* lines 302, 269-271: a new semaphore and one task per row of the chunk
\* (the tasks and the semaphore of the chunk before are dropped)
ProcessChunk ==
    /\ mpc = "chunk"
    /\ sem' = MAX_CONCURRENCY
    /\ holders' = {}
    /\ pc' = [w \in DOMAIN chunks[idx] |-> "jitter"]
    /\ url' = chunks[idx]
    /\ attempt' = [w \in DOMAIN chunks[idx] |-> 0]
    /\ context' = [w \in DOMAIN chunks[idx] |-> "None"]
    /\ resp' = [w \in DOMAIN chunks[idx] |-> "None"]
    /\ round' = [w \in DOMAIN chunks[idx] |-> 0]
    /\ result' = [w \in DOMAIN chunks[idx] |-> NoResult]
    /\ solved' = [w \in DOMAIN chunks[idx] |-> 0]
    /\ exc' = [w \in DOMAIN chunks[idx] |-> "None"]
    /\ nothing' = [w \in DOMAIN chunks[idx] |-> FALSE]
    /\ jitters' = [w \in DOMAIN chunks[idx] |-> 0]
    /\ backoffs' = [w \in DOMAIN chunks[idx] |-> 0]
    /\ order' = <<>>
    /\ mpc' = "gather"
    /\ UNCHANGED <<df, size, chunks, idx, all_results, full_df, pauses>>

AfterChunk_always(i, n) == "pause"

\* line 306: if idx < len(chunks), the pause; after the last chunk, none
AfterChunk(i, n) == IF i < n THEN "pause" ELSE "finish"

\* lines 271-274, 303-306: every task returned
GatherReturns ==
    /\ mpc = "gather"
    /\ \A w \in Workers : pc[w] = "done"
    /\ all_results' = Append(all_results, Merge(chunks[idx], gather(result, order)))
    /\ mpc' = AfterChunk(idx, Len(chunks))
    /\ UNCHANGED <<df, size, chunks, idx, full_df, pauses, workerVars>>

\* line 271: gather re-raises the first exception of a task; nothing catches
\* it in process_chunk or main_async, and the run ends (lines 322-325)
GatherRaises ==
    /\ mpc = "gather"
    /\ \E w \in Workers : pc[w] = "raised"
    /\ mpc' = "aborted"
    /\ UNCHANGED <<df, size, chunks, idx, all_results, full_df, pauses, workerVars>>

\* line 307, then the next iteration of the loop of line 300
Pause ==
    /\ mpc = "pause"
    /\ idx' = idx + 1
    /\ pauses' = pauses + 1
    /\ mpc' = "chunk"
    /\ UNCHANGED <<df, size, chunks, all_results, full_df, workerVars>>

\* lines 308-315
Finish ==
    /\ mpc = "finish"
    /\ full_df' = IF all_results # <<>> THEN Concat(all_results) ELSE <<>>
    /\ mpc' = "done"
    /\ UNCHANGED <<df, size, chunks, idx, all_results, pauses, workerVars>>

\* ------------------------------------------------------ specification ---
Inputs == {[i \in 1..n |-> i] : n \in 0..MaxRows}

Init ==
    /\ df \in Inputs
    /\ size \in ChunkSizes
    /\ chunks = <<>>
    /\ idx = 0
    /\ mpc = "start"
    /\ all_results = <<>>
    /\ full_df = <<>>
    /\ sem = 0
    /\ holders = {}
    /\ pc = <<>> /\ url = <<>> /\ attempt = <<>> /\ context = <<>> /\ resp = <<>>
    /\ round = <<>> /\ result = <<>> /\ solved = <<>>
    /\ exc = <<>> /\ nothing = <<>> /\ jitters = <<>> /\ backoffs = <<>>
    /\ order = <<>>
    /\ pauses = 0

Next ==
    \/ MainStart \/ ProcessChunk \/ GatherReturns \/ GatherRaises
    \/ Pause \/ Finish
    \/ \E w \in Workers : Jitter(w)
    \/ \E w \in Workers : Acquire(w)
    \/ \E w \in Workers : NewContext(w)
    \/ \E w \in Workers : NewPage(w)
    \/ \E w \in Workers : Goto(w)
    \/ \E w \in Workers : Title(w)
    \/ \E w \in Workers : NfClose(w)
    \/ \E w \in Workers : Consent(w)
    \/ \E w \in Workers : Classify(w)
    \/ \E w \in Workers : Recover(w)
    \/ \E w \in Workers : Wait(w)
    \/ \E w \in Workers : Extract(w)
    \/ \E w \in Workers : OkClose(w)
    \/ \E w \in Workers : HClose(w)
    \/ \E w \in Workers : Backoff(w)

Spec == Init /\ [][Next]_vars

\* The event loop resumes every coroutine whose awaited operation has ended,
\* and every operation and sleep ends: each step of main_async and of a worker
\* that stays enabled is taken.  asyncio.Semaphore wakes its waiters in FIFO
\* order: a waiter is not overtaken for ever, whence SF for Acquire.
WorkerIds == UNION {1..n : n \in ChunkSizes}

MainStep ==
    MainStart \/ ProcessChunk \/ GatherReturns \/ GatherRaises \/ Pause \/ Finish

WorkerStep(w) ==
    \/ Jitter(w) \/ NewContext(w) \/ NewPage(w) \/ Goto(w) \/ Title(w)
    \/ NfClose(w) \/ Consent(w) \/ Classify(w) \/ Recover(w) \/ Wait(w)
    \/ Extract(w) \/ OkClose(w) \/ HClose(w) \/ Backoff(w)

FairSpec ==
    /\ Spec
    /\ WF_vars(MainStep)
    /\ \A w \in WorkerIds : WF_vars(WorkerStep(w)) /\ SF_vars(Acquire(w))

\* ============================================================== claims ===
\* the sessions opened by browser.new_context and not closed
OpenSessions == {w \in Workers : context[w] = "open"}

\* the workers of the current chunk whose coroutine has ended
Ended(w) == pc[w] \in {"done", "raised"}

\* C1: in every reachable state, whatever the interleaving of the workers and
\* also when attempts end by an exception, the number of sessions opened by
\* browser.new_context and not yet closed is at most MAX_CONCURRENCY.
C1_SessionsAtMostK == Cardinality(OpenSessions) <= MAX_CONCURRENCY

\* C2: scrape_one never propagates an exception to process_chunk, whichever
\* browser operations fail (context.close in the except handler included):
\* no worker ends by raising, and main_async is never aborted by a task.
C2_NeverPropagates ==
    /\ \A w \in Workers : pc[w] # "raised"
    /\ mpc # "aborted"

\* C3: a worker never starts attempt MAX_RETRIES + 1, and when it ends it has
\* reached a terminal state: it returned a success record (extracted or
\* not-found) or, exhausted, the "Error" sentinel in all three fields.
C3_OneTerminalState ==
    \A w \in Workers :
        /\ attempt[w] <= MAX_RETRIES
        /\ Ended(w) =>
             /\ pc[w] = "done"
             /\ result[w] \in {SuccessResult(url[w]), NotFoundResult, ErrorResult}

C5_ChunksPartitionInOrder ==
    /\ mpc # "start" =>
         /\ Len(chunks) = (Len(df) + size - 1) \div size
         /\ \A k \in DOMAIN chunks : Len(chunks[k]) \in 1..size
         /\ Concat(chunks) = df
    /\ (mpc = "done" /\ all_results # <<>>) =>
         /\ Len(full_df) = Len(df)
         /\ \A i \in DOMAIN df : full_df[i].url = df[i]

\* C5 witness: three rows in chunks of two were processed and written.
C5_Witness ==
    /\ mpc = "done" /\ Len(df) = 3 /\ size = 2
    /\ Len(chunks) = 2 /\ Len(full_df) = 3

\* the fields of a result record, as merged onto a row
RowOf(u, r) ==
    [url           |-> u,
     availability  |-> r.availability,
     average_stars |-> r.average_stars,
     total_reviews |-> r.total_reviews]

\* C6: once a chunk is merged, the row at position i carries the result
\* returned by the worker started for the Target at position i, whatever the
\* order in which the workers completed.
C6_PositionIndexed ==
    mpc \in {"pause", "finish", "done"} =>
        \A i \in Workers :
            all_results[idx][i] = RowOf(chunks[idx][i], result[i])

\* C6 witness: a chunk was merged whose second worker completed first and
\* returned another record than the first.
C6_Witness ==
    /\ mpc \in {"pause", "finish"}
    /\ order = <<2, 1>>
    /\ result[1] # result[2]
    /\ all_results[idx][1] = RowOf(chunks[idx][1], result[1])

\* the positions of a worker inside "async with sem" (lines 212-254)
InsideSem ==
    {"new_context", "new_page", "goto", "title", "nf_close", "consent",
     "classify", "recover", "wait", "extract", "ok_close"}

\* C7: a worker that opens a session holds a permit; a permit is held only by
\* a worker inside the "async with sem" block, so it is released before the
\* worker returns (or raises) on every path; and when all workers of a chunk
\* have returned, all MAX_CONCURRENCY permits are free.
C7_PermitHeldAndReleased ==
    /\ \A w \in Workers : pc[w] = "new_context" => w \in holders
    /\ \A w \in Workers : w \in holders <=> pc[w] \in InsideSem
    /\ mpc # "start" /\ Workers # {} =>
          sem + Cardinality(holders) = MAX_CONCURRENCY
    /\ (Workers # {} /\ \A w \in Workers : Ended(w)) => sem = MAX_CONCURRENCY

\* C7 witness: both workers of a chunk have returned, one by the exception
\* path (exhausted) and one by the not-found path, and the permits are free.
C7_Witness ==
    /\ mpc = "gather"
    /\ DOMAIN pc = {1, 2}
    /\ \A w \in Workers : pc[w] = "done"
    /\ result[1] = ErrorResult /\ result[2] = NotFoundResult
    /\ sem = MAX_CONCURRENCY

\* the rows merged so far
MergedRows ==
    UNION {{all_results[k][i] : i \in DOMAIN all_results[k]} : k \in DOMAIN all_results}

\* the workers of a chunk that is not merged
Unmerged == IF mpc \in {"gather", "aborted"} THEN Workers ELSE {}

\* the targets every attempt of which failed: the worker returned the "Error"
\* record or ended by an exception
FailedTargets ==
    {r.url : r \in {x \in MergedRows : x = RowOf(x.url, ErrorResult)}}
    \cup {url[w] : w \in {v \in Unmerged :
            pc[v] = "raised" \/ (pc[v] = "done" /\ result[v] = ErrorResult)}}

\* the targets, started so far, whose worker returned the extracted record
SucceededTargets ==
    {r.url : r \in {x \in MergedRows : x = RowOf(x.url, SuccessResult(x.url))}}
    \cup {url[w] : w \in {v \in Unmerged :
            pc[v] = "done" /\ result[v] = SuccessResult(url[v])}}

\* the targets whose worker was started
StartedTargets == {r.url : r \in MergedRows} \cup {url[w] : w \in Unmerged}

\* C8: failure is isolated per Target.  With input [urlA, urlB, urlC] and chunk
\* size 2, when the run is over, every attempt of urlB has failed and every
\* other Target whose worker was started has succeeded, the output is
\* [success(urlA), error(urlB), success(urlC)].
C8_FailureIsolated ==
    (/\ df = <<1, 2, 3>> /\ size = 2
     /\ mpc \in {"done", "aborted"}
     /\ 2 \in FailedTargets
     /\ StartedTargets \ {2} \subseteq SucceededTargets) =>
        /\ mpc = "done"
        /\ full_df = <<RowOf(1, SuccessResult(1)),
                       RowOf(2, ErrorResult),
                       RowOf(3, SuccessResult(3))>>

\* the steps of an attempt after a successful recovery, up to the return
AfterRecovery == {"wait", "classify", "extract", "ok_close"}

FailureSentinels == {Sentinel("Error"), Sentinel("Page n'existe pas")}

WellFormed(r) ==
    /\ FIELDS \subseteq DOMAIN r
    /\ \/ \E s \in FailureSentinels : \A f \in FIELDS : r[f] = s
       \/ \A f \in FIELDS : r[f] \notin FailureSentinels

\* C10: every record returned by scrape_one, and every row merged by
\* process_chunk, has the three fields; a record of the not-found path or of
\* the exhausted path carries the same sentinel in all three, never a mix of
\* sentinel and data.
C10_FullyPopulated ==
    /\ \A w \in Workers : pc[w] = "done" =>
          /\ DOMAIN result[w] = FIELDS
          /\ WellFormed(result[w])
          /\ resp[w] = "err" => result[w] = NotFoundResult
    /\ \A k \in DOMAIN all_results : \A i \in DOMAIN all_results[k] :
          /\ DOMAIN all_results[k][i] = FIELDS \cup {"url"}
          /\ WellFormed(all_results[k][i])

\* C10 witness: the output holds a row of the exhausted path and a row of the
\* not-found path.
C10_Witness ==
    /\ mpc = "done"
    /\ \E i \in DOMAIN full_df : full_df[i] = RowOf(df[i], ErrorResult)
    /\ \E i \in DOMAIN full_df : full_df[i] = RowOf(df[i], NotFoundResult)

\* C11 (as claimed): the recovery loop of an attempt runs at most
\* RECOVERY_ROUNDS rounds, and the attempt fails with the persistent-block
\* RuntimeError only if the page is still classified blocked after these
\* rounds: never in an attempt whose last round solved the CAPTCHA and left
\* the page classified unblocked (such an attempt goes on to the extraction).
C11_PersistentOnlyIfStillBlocked ==
    \A w \in Workers :
        /\ round[w] <= RECOVERY_ROUNDS
        /\ exc[w] = "Persistent" => solved[w] # RECOVERY_ROUNDS

C13_RecoveryNeverRaises ==
    \A w \in Workers : exc[w] # "HbpError"

\* the positions at which a worker has no session of its own: before
\* browser.new_context of an attempt, asleep between two attempts, returned
NoSession == {"jitter", "acquire", "new_context", "backoff", "done"}

\* C14: the session an attempt opens is closed before the worker starts its
\* next attempt or returns, whatever the outcome of the attempt; an attempt
\* starts with no session (the session of the attempt before is not used
\* again); when every worker of the chunk has returned no session is open.
C14_SessionClosedWithAttempt ==
    /\ \A w \in Workers :
          /\ pc[w] \in NoSession => context[w] # "open"
          /\ pc[w] \in {"jitter", "acquire", "new_context"} => context[w] = "None"
    /\ (\A w \in Workers : pc[w] = "done") => OpenSessions = {}

\* C14 witness: a worker returned after a failed attempt and a retry, and the
\* session of its last attempt is closed.
C14_Witness ==
    \E w \in Workers :
        pc[w] = "done" /\ attempt[w] > 1 /\ context[w] = "closed"

\* C15: chunks are processed one after the other.  While the workers of chunk
\* idx run they are the workers of that chunk alone, every chunk before it is
\* complete and one pause has been slept after each of them; a pause starts
\* only when every worker of the chunk has returned, and only after a chunk
\* that is not the last; at the end of the loop one pause has been slept for
\* each chunk but the last.
C15_ChunksSequential ==
    /\ mpc \in {"chunk", "gather", "pause", "aborted"} => pauses = idx - 1
    /\ mpc = "gather" => url = chunks[idx] /\ Len(all_results) = idx - 1
    /\ mpc = "pause" => idx < Len(chunks) /\ Len(all_results) = idx
    /\ mpc \in {"pause", "chunk", "finish", "done"} =>
          \A w \in Workers : pc[w] = "done"
    /\ (mpc \in {"finish", "done"} /\ chunks # <<>>) =>
          idx = Len(chunks) /\ pauses = Len(chunks) - 1

\* C15 witness: a run of three chunks is over, with two pauses.
C15_Witness == mpc = "done" /\ Len(chunks) = 3 /\ pauses = 2

\* C16 (as claimed): every attempt of a worker, the first and each retry, is
\* preceded by its own jitter sleep before the permit is acquired: a worker
\* that waits for or holds the permit of attempt n has slept n jitters.
C16_JitterBeforeEveryAttempt ==
    \A w \in Workers :
        pc[w] \in InsideSem \cup {"acquire"} => jitters[w] = attempt[w]

\* C16 (amended): a worker sleeps the jitter once, before its first attempt;
\* a retry is preceded by the backoff sleep of the attempt that failed and by
\* no jitter: a worker that waits for or holds the permit of attempt n has
\* slept one jitter and n - 1 backoffs.
C16_JitterOncePerWorker ==
    \A w \in Workers :
        /\ pc[w] = "jitter" => attempt[w] = 0 /\ jitters[w] = 0
        /\ pc[w] # "jitter" => jitters[w] = 1
        /\ pc[w] \in InsideSem \cup {"acquire"} => backoffs[w] = attempt[w] - 1

\* C16 witness: a worker holds the permit of its last attempt.
C16_Witness ==
    \E w \in Workers : attempt[w] = MAX_RETRIES /\ pc[w] = "new_context"

\* C17 (as claimed): when an attempt fails by an exception the worker first
\* closes the session; then, if attempt < MAX_RETRIES, it sleeps the backoff
\* and starts the next attempt, and if attempt = MAX_RETRIES it returns the
\* "Error" record without a backoff; after a backoff comes a further attempt.
C17_CloseThenBackoffOrError ==
    [][\A w \in Workers :
         /\ (pc[w] = "h_close" /\ pc'[w] # "h_close") =>
               /\ context'[w] = "closed"
               /\ IF attempt[w] < MAX_RETRIES
                  THEN pc'[w] = "backoff"
                  ELSE pc'[w] = "done" /\ result'[w] = ErrorResult
         /\ (pc[w] = "backoff" /\ pc'[w] # "backoff") =>
               pc'[w] = "acquire" /\ attempt'[w] = attempt[w] + 1]_vars

\* C18: handle_cookie_consent returns a boolean for every outcome, and
\* whatever it returns the attempt goes on to the block classification: the
\* worker keeps its permit and its session and starts the first round.
C18_ConsentIsBestEffort ==
    /\ \A o \in ConsentOutcomes : handle_cookie_consent(o) \in Booleans
    /\ [][\A w \in Workers :
            (pc[w] = "consent" /\ pc'[w] # "consent") =>
               /\ pc'[w] = "classify" /\ round'[w] = 1
               /\ attempt'[w] = attempt[w]
               /\ w \in holders' /\ context'[w] = "open"]_vars

\* C18 witness: consent handling is over and the worker is about to classify
\* the page in the first round.
C18_Witness ==
    \E w \in Workers : pc[w] = "classify" /\ round[w] = 1 /\ w \in holders

\* the sleeps of scrape_one
Sleeping == {"jitter", "backoff"}

\* C19: a worker that sleeps the jitter or the backoff holds no permit, and
\* so do the workers that wait, close in the handler or have ended; when no
\* worker is between session creation and the end of its page work every
\* permit is available.
C19_NoPermitWhileSleeping ==
    /\ \A w \in Workers : pc[w] \in Sleeping => w \notin holders
    /\ \A w \in holders : pc[w] \in InsideSem
    /\ (mpc = "gather" /\ \A w \in Workers : pc[w] \notin InsideSem) =>
          sem = MAX_CONCURRENCY

\* C19 witness: a worker sleeps its backoff while another worker holds a
\* permit that the first one released.
C19_Witness ==
    \E w, v \in Workers :
        pc[w] = "backoff" /\ v \in holders /\ sem = MAX_CONCURRENCY - 1

\* C20 (as claimed): when every operation and sleep ends and the semaphore is
\* fair, every worker returns, every chunk completes and the run reaches the
\* end of the last chunk (lines 308-315 are executed).
C20_RunCompletes == <>(mpc = "done")
====
